---- MODULE Spec2Model ----
(***************************************************************************)
(* Alert persistence and retention core (pkg/database/alerts.go):          *)
(* CreateAlertBulk, BuildAlertRequestFromFilter, QueryAlertWithFilter,     *)
(* DeleteAlertGraph, DeleteAlertWithFilter and FlushAlerts, over an        *)
(* entity store holding alerts, events, metas and decisions.               *)
(***************************************************************************)
EXTENDS Integers, Sequences, FiniteSets, TLC

VARIABLES store, now, call, last, run

vars == <<store, now, call, last, run>>

(***************************************************************************)
(* Bounds of the model and program constants.                              *)
(***************************************************************************)
\* batch size of CreateAlertBulk (alerts.go:25)
bulkSize == 20

\* longest alert list of one ingestion in the batching specification
MaxList == 41
\* longest alert list of one ingestion in the store specification
MaxCallList == 2
\* the store specification stops ingesting once this many alerts were created
MaxAlertId == 2
\* the store specification stops ingesting once a child row has this identifier
MaxChildId == 2
\* the clock of the store specification stops at this instant
MaxTime == 1
\* largest statement ordinal at which the store specification injects a failure
MaxFail == 3
\* largest statement ordinal at which a single applied call is made to fail
MaxApplyFail == 7
\* largest batch size the batching equivalence is compared for
MaxBatch == 3
\* longest duration, in hours, of a since or until filter
MaxDuration == 2
\* how many alerts are ingested while the concurrent flushes run
MaxFlushIngest == 1
\* how many times a cascading delete is run on one alert
MaxTries == 2

NULL == 0

(***************************************************************************)
(* Strings that are parsed.  A text is kept as the grammar it belongs to   *)
(* and the value it denotes: k = "dur" a Go duration of n hours, "time" an *)
(* RFC3339 instant n, "ip" a dotted IPv4 host n, "cidr" a CIDR block       *)
(* covering n..m, "str" any other text s.                                  *)
(***************************************************************************)
Tok(k, n, m, s) == [k |-> k, n |-> n, m |-> m, s |-> s]
Str(s) == Tok("str", 0, 0, s)
Dur(n) == Tok("dur", n, 0, "")
Instant(t) == Tok("time", t, 0, "")
Host(a) == Tok("ip", a, a, "")
Cidr(a, b) == Tok("cidr", a, b, "")

\* time.Parse(time.RFC3339, v)
TimeParse(v) == [ok |-> v.k = "time", t |-> v.n]
\* time.ParseDuration(v)
ParseDuration(v) == [ok |-> v.k = "dur", d |-> v.n]
\* t.Format(time.RFC3339)
FormatRFC3339(t) == Instant(t)
\* strconv.ParseBool(v)
ParseBool(v) ==
  [ok |-> v.k = "str" /\ v.s \in {"1", "t", "T", "TRUE", "true", "True",
                                    "0", "f", "F", "FALSE", "false", "False"},
   b |-> v.k = "str" /\ v.s \in {"1", "t", "T", "TRUE", "true", "True"}]
\* IsIpv4(v)
IsIpv4(v) == v.k = "ip"
\* GetIpsFromIpRange(v): net.ParseCIDR, then the first and last address
GetIpsFromIpRange(v) == [ok |-> v.k = "cidr", start |-> v.n, end |-> v.m]
\* value[0] + "/32"
Slash32(v) == IF v.k = "ip" THEN Cidr(v.n, v.n) ELSE Str("?/32")

(***************************************************************************)
(* The entity store.  A row of events, metas or decisions carries the      *)
(* foreign key owner (NULL while detached).  src is the position, in the   *)
(* ingested list, of the submission a row was built from.                  *)
(***************************************************************************)
EmptyStore(mode) ==
  [alerts |-> {}, events |-> {}, metas |-> {}, decisions |-> {},
   nextAlert |-> 1, nextEvent |-> 1, nextMeta |-> 1, nextDecision |-> 1,
   attach |-> mode]

\* how the store treats the attachment of a child that already has an owner:
\* "reject" fails the statement, "reparent" moves the child
AttachModes == {"reject", "reparent"}

Machines == {"m1"}

\* the n-th storage statement from now fails when f = 1; f = 0 never fails
Fails(f) == f = 1
After(f) == IF f > 1 THEN f - 1 ELSE f

Ids(rows) == {r.id : r \in rows}
Range(q) == {q[k] : k \in 1..Len(q)}

\* c.QueryMachineByID(machineId)
QueryMachineByID(machineId, f) ==
  IF Fails(f) THEN [err |-> "QueryFail", owner |-> ""]
  ELSE IF machineId \notin Machines THEN [err |-> "UserNotExists", owner |-> ""]
  ELSE [err |-> "", owner |-> machineId]

(***************************************************************************)
(* Store statements used by the ingestion.                                 *)
(***************************************************************************)
NewIds(first, n) == [k \in 1..n |-> first + k - 1]

\* UPDATE <children> SET owner = alertId WHERE id IN ids (the has-many edge of
\* an alert under creation)
Attach(rows, ids, alertId, mode) ==
  LET targets == {r \in rows : r.id \in Range(ids)}
      free == {r \in targets : r.owner = NULL}
      moved == IF mode = "reject" THEN free ELSE targets
  IN [ok |-> mode # "reject" \/ Cardinality(free) = Len(ids),
      rows |-> (rows \ moved) \cup {[r EXCEPT !.owner = alertId] : r \in moved}]

\* the three has-many edges of one alert builder: AddDecisions, AddEvents, AddMetas
AttachEdges(s, builder, alertId) ==
  LET d == Attach(s.decisions, builder.decisions, alertId, s.attach)
      e == Attach(s.events, builder.events, alertId, s.attach)
      m == Attach(s.metas, builder.metas, alertId, s.attach)
  IN [ok |-> d.ok /\ e.ok /\ m.ok,
      s |-> [s EXCEPT !.decisions = d.rows, !.events = e.rows, !.metas = m.rows]]

\* the alert row of one builder (lines 106-133), created at instant t
AlertRow(builder, id, t) ==
  [id |-> id, createdAt |-> t, scenario |-> builder.scenario,
   scope |-> builder.scope, value |-> builder.value,
   simulated |-> builder.simulated, owner |-> builder.owner, src |-> builder.src]

RECURSIVE SaveFrom(_, _, _, _)
SaveFrom(s, bulk, k, t) ==
  IF k > Len(bulk) THEN [ok |-> TRUE, s |-> s]
  ELSE LET id == s.nextAlert
           ins == [s EXCEPT !.alerts = @ \cup {AlertRow(bulk[k], id, t)},
                            !.nextAlert = @ + 1]
           a == AttachEdges(ins, bulk[k], id)
       IN IF a.ok THEN SaveFrom(a.s, bulk, k + 1, t) ELSE [ok |-> FALSE, s |-> s]

\* c.Ent.Alert.CreateBulk(bulk...).Save(c.CTX): one transaction
AlertCreateBulkSave(s, bulk, t, f) ==
  LET r == SaveFrom(s, bulk, 1, t)
  IN IF Fails(f) \/ ~r.ok THEN [ok |-> FALSE, s |-> s, ids |-> <<>>]
     ELSE [ok |-> TRUE, s |-> r.s, ids |-> NewIds(s.nextAlert, Len(bulk))]

(***************************************************************************)
(* CreateAlertBulk.  x = [s |-> the store, c |-> the locals of the call].  *)
(***************************************************************************)
NewCall(machineId, alertList, f) ==
  [op |-> "ingest", machineId |-> machineId, list |-> alertList, i |-> 0,
   bulk |-> <<>>, ret |-> <<>>, decisions |-> <<>>, metas |-> <<>>,
   events |-> <<>>, owner |-> "", lookup |-> "", f |-> f, err |-> "",
   pc |-> IF Len(alertList) = 0 THEN "final" ELSE "loop"]

IdleCall == [NewCall("", <<>>, 0) EXCEPT !.op = "none", !.pc = "done"]

\* Abort that returns the identifiers collected so far
Abort_KeepIds(x, e) == [x EXCEPT !.c.err = e, !.c.pc = "done"]

\* return []string{}, errors.Wrap(e, ...)
Abort(x, e) == [x EXCEPT !.c.err = e, !.c.ret = <<>>, !.c.pc = "done"]

\* IterOwner that aborts on every lookup error, "not found" included
IterOwner_Strict(x) ==
  LET lk == QueryMachineByID(x.c.machineId, x.c.f)
  IN IF lk.err # ""
     THEN Abort([x EXCEPT !.c.lookup = lk.err], "QueryFail")
     ELSE [x EXCEPT !.c.owner = lk.owner, !.c.lookup = lk.err, !.c.f = After(@)]

\* lines 29-35
IterOwner(x) ==
  LET lk == QueryMachineByID(x.c.machineId, x.c.f)
  IN IF lk.err \notin {"", "UserNotExists"}
     THEN Abort([x EXCEPT !.c.lookup = lk.err], "QueryFail")
     ELSE [x EXCEPT !.c.owner = IF lk.err = "" THEN lk.owner ELSE "",
                    !.c.lookup = lk.err,
                    !.c.f = After(@)]

\* lines 36-44
IterParse(x, alertItem) ==
  IF x.c.err # "" THEN x
  ELSE IF ~TimeParse(alertItem.startAt).ok THEN Abort(x, "ParseTimeFail")
  ELSE IF ~TimeParse(alertItem.stopAt).ok THEN Abort(x, "ParseTimeFail")
  ELSE x

\* lines 46-66 (json.Marshal of the event's meta items cannot fail)
IterEvents(x, alertItem, idx) ==
  LET n == Len(alertItem.events)
      ids == NewIds(x.s.nextEvent, n)
  IN IF x.c.err # "" \/ n = 0 THEN x
     ELSE IF \E k \in 1..n : ~TimeParse(alertItem.events[k]).ok
       THEN Abort(x, "ParseTimeFail")
     ELSE IF Fails(x.c.f) THEN Abort(x, "BulkError")
     ELSE [x EXCEPT
             !.s.events = @ \cup {[id |-> ids[k], owner |-> NULL, src |-> idx] : k \in 1..n},
             !.s.nextEvent = @ + n,
             !.c.events = ids,
             !.c.f = After(@)]

\* lines 68-79
IterMetas(x, alertItem, idx) ==
  LET n == Len(alertItem.metas)
      ids == NewIds(x.s.nextMeta, n)
  IN IF x.c.err # "" \/ n = 0 THEN x
     ELSE IF Fails(x.c.f) THEN Abort(x, "BulkError")
     ELSE [x EXCEPT
             !.s.metas = @ \cup {[id |-> ids[k], owner |-> NULL, src |-> idx] : k \in 1..n},
             !.s.nextMeta = @ + n,
             !.c.metas = ids,
             !.c.f = After(@)]

\* lines 88-97: one decision row, until = time.Now().Add(duration)
DecisionRow(decisionItem, alertItem, id, idx, t) ==
  [id |-> id, owner |-> NULL, src |-> idx,
   until |-> t + ParseDuration(decisionItem.duration).d,
   type |-> decisionItem.type, startIP |-> decisionItem.startIP,
   endIP |-> decisionItem.endIP, origin |-> decisionItem.origin,
   simulated |-> alertItem.simulated]

\* lines 81-104
IterDecisions(x, alertItem, idx, t) ==
  LET n == Len(alertItem.decisions)
      ids == NewIds(x.s.nextDecision, n)
  IN IF x.c.err # "" \/ n = 0 THEN x
     ELSE IF \E k \in 1..n : ~ParseDuration(alertItem.decisions[k].duration).ok
       THEN Abort(x, "ParseDurationFail")
     ELSE IF Fails(x.c.f) THEN Abort(x, "BulkError")
     ELSE [x EXCEPT
             !.s.decisions = @ \cup
                {DecisionRow(alertItem.decisions[k], alertItem, ids[k], idx, t) : k \in 1..n},
             !.s.nextDecision = @ + n,
             !.c.decisions = ids,
             !.c.f = After(@)]

\* lines 106-134: the builder references the children held by the call's
\* decisions, events and metas variables
IterBuild(x, alertItem, idx) ==
  IF x.c.err # "" THEN x
  ELSE [x EXCEPT !.c.bulk = Append(@,
          [scenario |-> alertItem.scenario, scope |-> alertItem.scope,
           value |-> alertItem.value, simulated |-> alertItem.simulated,
           decisions |-> x.c.decisions, events |-> x.c.events,
           metas |-> x.c.metas, owner |-> x.c.owner, src |-> idx])]

\* IterFlush without the reset of the batch buffer
IterFlush_KeepBuffer(x, t, b) ==
  IF x.c.err # "" \/ Len(x.c.bulk) # b THEN x
  ELSE LET r == AlertCreateBulkSave(x.s, x.c.bulk, t, x.c.f)
       IN IF ~r.ok THEN Abort(x, "BulkError")
          ELSE [x EXCEPT !.s = r.s, !.c.ret = @ \o r.ids, !.c.f = After(@)]

\* IterFlush that persists the buffer one alert before it is full
IterFlush_OneShort(x, t, b) ==
  IF x.c.err # "" \/ Len(x.c.bulk) # b - 1 THEN x
  ELSE LET r == AlertCreateBulkSave(x.s, x.c.bulk, t, x.c.f)
       IN IF ~r.ok THEN Abort(x, "BulkError")
          ELSE [x EXCEPT !.s = r.s, !.c.ret = @ \o r.ids, !.c.bulk = <<>>,
                         !.c.f = After(@)]

\* lines 136-150 (b is the batch size)
IterFlush(x, t, b) ==
  IF x.c.err # "" \/ Len(x.c.bulk) # b THEN x
  ELSE LET r == AlertCreateBulkSave(x.s, x.c.bulk, t, x.c.f)
       IN IF ~r.ok THEN Abort(x, "BulkError")
          ELSE [x EXCEPT !.s = r.s, !.c.ret = @ \o r.ids, !.c.bulk = <<>>,
                         !.c.f = After(@)]

\* one iteration of the loop of lines 28-151
CreateAlertBulkIter(x, t, b) ==
  LET idx == x.c.i + 1
      alertItem == x.c.list[idx]
      y == IterFlush(IterBuild(IterDecisions(IterMetas(IterEvents(
             IterParse(IterOwner(x), alertItem), alertItem, idx), alertItem, idx),
             alertItem, idx, t), alertItem, idx), t, b)
  IN IF y.c.err # "" THEN y
     ELSE [y EXCEPT !.c.i = idx,
                    !.c.pc = IF idx = Len(x.c.list) THEN "final" ELSE "loop"]

\* CreateAlertBulkFinal without the persist of the last, partial batch
CreateAlertBulkFinal_NoFlush(x, t) == [x EXCEPT !.c.bulk = <<>>, !.c.pc = "done"]

\* lines 153-162
CreateAlertBulkFinal(x, t) ==
  LET r == AlertCreateBulkSave(x.s, x.c.bulk, t, x.c.f)
  IN IF ~r.ok THEN Abort(x, "BulkError")
     ELSE [x EXCEPT !.s = r.s, !.c.ret = @ \o r.ids, !.c.bulk = <<>>,
                    !.c.f = After(@), !.c.pc = "done"]

CreateAlertBulkStep(x, t, b) ==
  IF x.c.pc = "loop" THEN CreateAlertBulkIter(x, t, b) ELSE CreateAlertBulkFinal(x, t)

\* the whole call
RECURSIVE CreateAlertBulkRun(_, _, _)
CreateAlertBulkRun(x, t, b) ==
  IF x.c.pc = "done" THEN x ELSE CreateAlertBulkRun(CreateAlertBulkStep(x, t, b), t, b)

CreateAlertBulk(s, machineId, alertList, f, t) ==
  CreateAlertBulkRun([s |-> s, c |-> NewCall(machineId, alertList, f)], t, bulkSize)

(***************************************************************************)
(* BuildAlertRequestFromFilter.  A filter maps keys to the first of their  *)
(* values; order is the order in which range visits the keys.  The query   *)
(* built is the set of its Where predicates.                               *)
(***************************************************************************)
Pred(p, v, n, m) == [p |-> p, v |-> v, n |-> n, m |-> m]

NewQuery == [preds |-> {}, startIP |-> 0, endIP |-> 0, err |-> "", key |-> ""]

Where(q, pred) == [q EXCEPT !.preds = @ \cup {pred}]
Reject(q, e, param) == [q EXCEPT !.err = e, !.key = param]

\* lines 171-176
SimulatedFilter(filter) ==
  IF "simulated" \in DOMAIN filter /\ filter["simulated"] = Str("false")
  THEN Where(NewQuery, Pred("SimulatedEQ", Str("false"), 0, 0))
  ELSE NewQuery

\* the keys left after delete(filter, "simulated")
LoopKeys(filter) == DOMAIN filter \ {"simulated"}

\* lines 186-194
CaseIp(q, param, value) ==
  IF ~IsIpv4(value) THEN Reject(q, "InvalidIPOrRange", param)
  ELSE LET r == GetIpsFromIpRange(Slash32(value))
       IN IF ~r.ok THEN Reject(q, "InvalidIPOrRange", param)
          ELSE [q EXCEPT !.startIP = r.start, !.endIP = r.end]

\* lines 195-199
CaseRange(q, param, value) ==
  LET r == GetIpsFromIpRange(value)
  IN IF ~r.ok THEN Reject(q, "InvalidIPOrRange", param)
     ELSE [q EXCEPT !.startIP = r.start, !.endIP = r.end]

\* CaseSince that adds the duration to the clock
CaseSince_Future(q, param, value, t) ==
  LET d == ParseDuration(value)
  IN IF ~d.ok THEN Reject(q, "ParseDuration", param)
     ELSE Where(q, Pred(IF param = "since" THEN "CreatedAtGTE" ELSE "CreatedAtLTE",
                        Str(""), t + d.d, 0))

\* lines 200-219; since.IsZero() needs now - duration to be year 1, which no
\* int64 duration reaches
CaseSince(q, param, value, t) ==
  LET d == ParseDuration(value)
  IN IF ~d.ok THEN Reject(q, "ParseDuration", param)
     ELSE Where(q, Pred(IF param = "since" THEN "CreatedAtGTE" ELSE "CreatedAtLTE",
                        Str(""), t - d.d, 0))

\* lines 222-227
CaseIncludeCapi(q, value) ==
  IF value = Str("false") THEN Where(q, Pred("HasDecisionsWithOriginNEQ", Str("CAPI"), 0, 0))
  ELSE q

\* CaseHasActiveDecision whose true branch compares until with the zero instant
CaseHasActiveDecision_AnyDecision(q, param, value, t) ==
  LET b == ParseBool(value)
  IN IF ~b.ok THEN Reject(q, "ParseType", param)
     ELSE IF b.b THEN Where(q, Pred("HasDecisionsWithUntilGTE", Str(""), 0, 0))
     ELSE Where(q, Pred("NotHasDecisions", Str(""), 0, 0))

\* lines 228-236
CaseHasActiveDecision(q, param, value, t) ==
  LET b == ParseBool(value)
  IN IF ~b.ok THEN Reject(q, "ParseType", param)
     ELSE IF b.b THEN Where(q, Pred("HasDecisionsWithUntilGTE", Str(""), t, 0))
     ELSE Where(q, Pred("NotHasDecisions", Str(""), 0, 0))

\* the switch of lines 179-239
VisitKey(q, param, value, t) ==
  CASE param = "scope" -> Where(q, Pred("SourceScopeEQ", value, 0, 0))
    [] param = "value" -> Where(q, Pred("SourceValueEQ", value, 0, 0))
    [] param = "scenario" -> Where(q, Pred("ScenarioEQ", value, 0, 0))
    [] param = "ip" -> CaseIp(q, param, value)
    [] param = "range" -> CaseRange(q, param, value)
    [] param \in {"since", "until"} -> CaseSince(q, param, value, t)
    [] param = "decision_type" -> Where(q, Pred("HasDecisionsWithTypeEQ", value, 0, 0))
    [] param = "include_capi" -> CaseIncludeCapi(q, value)
    [] param = "has_active_decision" -> CaseHasActiveDecision(q, param, value, t)
    [] OTHER -> Reject(q, "InvalidFilter", param)

RECURSIVE VisitKeys(_, _, _, _, _)
VisitKeys(q, filter, order, k, t) ==
  IF k > Len(order) \/ q.err # "" THEN q
  ELSE VisitKeys(VisitKey(q, order[k], filter[order[k]], t), filter, order, k + 1, t)

\* lines 241-246
IpRangeFilter(q) ==
  IF q.err = "" /\ q.startIP # 0 /\ q.endIP # 0
  THEN Where(q, Pred("HasDecisionsInRange", Str(""), q.startIP, q.endIP))
  ELSE q

BuildAlertRequestFromFilter(filter, order, t) ==
  IpRangeFilter(VisitKeys(SimulatedFilter(filter), filter, order, 1, t))

\* the orders in which range may visit the keys
Orders(keys) ==
  {o \in [1..Cardinality(keys) -> keys] : \A i, j \in 1..Cardinality(keys) : o[i] = o[j] => i = j}

(***************************************************************************)
(* The predicates of a query, evaluated by the store on an alert row.      *)
(***************************************************************************)
DecisionsOf(s, a) == {d \in s.decisions : d.owner = a.id}

Holds(s, a, pred) ==
  CASE pred.p = "SimulatedEQ" -> a.simulated = FALSE
    [] pred.p = "SourceScopeEQ" -> a.scope = pred.v
    [] pred.p = "SourceValueEQ" -> a.value = pred.v
    [] pred.p = "ScenarioEQ" -> a.scenario = pred.v
    [] pred.p = "CreatedAtGTE" -> a.createdAt >= pred.n
    [] pred.p = "CreatedAtLTE" -> a.createdAt <= pred.n
    [] pred.p = "HasDecisionsWithTypeEQ" -> \E d \in DecisionsOf(s, a) : d.type = pred.v
    [] pred.p = "HasDecisionsWithOriginNEQ" -> \E d \in DecisionsOf(s, a) : Str(d.origin) # pred.v
    [] pred.p = "HasDecisionsWithUntilGTE" -> \E d \in DecisionsOf(s, a) : d.until >= pred.n
    [] pred.p = "NotHasDecisions" -> DecisionsOf(s, a) = {}
    [] pred.p = "HasDecisionsInRange" ->
         /\ \E d \in DecisionsOf(s, a) : d.startIP >= pred.n
         /\ \E d \in DecisionsOf(s, a) : d.endIP <= pred.m

Matched(s, q) == {a \in s.alerts : \A pred \in q.preds : Holds(s, a, pred)}

\* Order(ent.Asc(alert.FieldCreatedAt)).All: the rows in every order the sort
\* key allows (rows of equal createdAt come in any order)
AscCreatedAt(rows) ==
  {o \in [1..Cardinality(rows) -> rows] :
     /\ \A i, j \in 1..Cardinality(rows) : o[i] = o[j] => i = j
     /\ \A i, j \in 1..Cardinality(rows) : i < j => o[i].createdAt <= o[j].createdAt}

(***************************************************************************)
(* QueryAlertWithFilter, DeleteAlertGraph, DeleteAlertWithFilter and       *)
(* FlushAlerts.  Each yields the set of outcomes the store's row order     *)
(* allows; f is the countdown to the failing storage statement.            *)
(***************************************************************************)
Outcome(s, ret, err, f) == [s |-> s, ret |-> ret, err |-> err, f |-> f]

\* lines 250-271
QueryAlertWithFilter(s, filter, order, t, f) ==
  LET q == BuildAlertRequestFromFilter(filter, order, t)
  IN IF q.err # "" THEN {Outcome(s, <<>>, q.err, f)}
     ELSE IF Fails(f) THEN {Outcome(s, <<>>, "QueryFail", f)}
     ELSE {Outcome(s, rows, "", After(f)) : rows \in AscCreatedAt(Matched(s, q))}

\* DeleteAlertGraphStep whose decision delete has lost its Where clause
DeleteAlertGraphStep_AllDecisions(s, id, k) ==
  CASE k = 1 -> [s EXCEPT !.events = {r \in @ : r.owner # id}]
    [] k = 2 -> [s EXCEPT !.metas = {r \in @ : r.owner # id}]
    [] k = 3 -> [s EXCEPT !.decisions = {}]
    [] k = 4 -> [s EXCEPT !.alerts = {r \in @ : r.id # id}]

\* DeleteAlertGraphStep that removes the alert row first
DeleteAlertGraphStep_AlertFirst(s, id, k) ==
  CASE k = 1 -> [s EXCEPT !.alerts = {r \in @ : r.id # id}]
    [] k = 2 -> [s EXCEPT !.events = {r \in @ : r.owner # id}]
    [] k = 3 -> [s EXCEPT !.metas = {r \in @ : r.owner # id}]
    [] k = 4 -> [s EXCEPT !.decisions = {r \in @ : r.owner # id}]

\* the four statements of lines 273-302, in order
DeleteAlertGraphStep(s, id, k) ==
  CASE k = 1 -> [s EXCEPT !.events = {r \in @ : r.owner # id}]
    [] k = 2 -> [s EXCEPT !.metas = {r \in @ : r.owner # id}]
    [] k = 3 -> [s EXCEPT !.decisions = {r \in @ : r.owner # id}]
    [] k = 4 -> [s EXCEPT !.alerts = {r \in @ : r.id # id}]

\* Alert.DeleteOne(alertItem).Exec fails when the row is not there; a
\* Delete().Where(...) of children removes any number of rows, none included
DeleteStmtErr(s, id, k) ==
  k = 4 /\ id \notin Ids(s.alerts)

\* DeleteAlertGraphStatement that reports a statement removing no row as failed
DeleteAlertGraphStatement_NoRows(s, id, k, f) ==
  IF Fails(f) \/ DeleteAlertGraphStep(s, id, k) = s
  THEN Outcome(s, <<>>, "DeleteFail", f)
  ELSE Outcome(DeleteAlertGraphStep(s, id, k), <<>>, "", After(f))

\* the k-th statement of lines 273-302 and the test of its error
DeleteAlertGraphStatement(s, id, k, f) ==
  IF Fails(f) \/ DeleteStmtErr(s, id, k) THEN Outcome(s, <<>>, "DeleteFail", f)
  ELSE Outcome(DeleteAlertGraphStep(s, id, k), <<>>, "", After(f))

RECURSIVE DeleteAlertGraphFrom(_, _, _, _)
DeleteAlertGraphFrom(s, id, k, f) ==
  IF k > 4 THEN Outcome(s, <<>>, "", f)
  ELSE LET r == DeleteAlertGraphStatement(s, id, k, f)
       IN IF r.err # "" THEN r ELSE DeleteAlertGraphFrom(r.s, id, k + 1, r.f)

DeleteAlertGraph(s, alertItem, f) == DeleteAlertGraphFrom(s, alertItem.id, 1, f)

\* DeleteEach that goes on to the next alert after a failed cascade
RECURSIVE DeleteEach_Continue(_, _, _, _, _)
DeleteEach_Continue(s, rows, k, n, f) ==
  IF k > n THEN Outcome(s, rows, "", f)
  ELSE LET d == DeleteAlertGraph(s, rows[k], f)
       IN DeleteEach_Continue(d.s, rows, k + 1, n, IF d.err # "" THEN 0 ELSE d.f)

\* the loop of lines 310-315 (and of lines 350-357) over rows[k..n]
RECURSIVE DeleteEach(_, _, _, _, _)
DeleteEach(s, rows, k, n, f) ==
  IF k > n THEN Outcome(s, rows, "", f)
  ELSE LET d == DeleteAlertGraph(s, rows[k], f)
       IN IF d.err # "" THEN Outcome(d.s, <<>>, "DeleteFail", d.f)
          ELSE DeleteEach(d.s, rows, k + 1, n, d.f)

\* lines 304-317: the error of the query is dropped
DeleteAlertWithFilter(s, filter, order, t, f) ==
  {DeleteEach(s, q.ret, 1, Len(q.ret), q.f) :
     q \in QueryAlertWithFilter(s, filter, order, t, f)}

\* FlushMaxItems whose loop tests itemNb <= nbToDelete
FlushMaxItems_OneMore(s, MaxItems, f) ==
  IF MaxItems <= 0 THEN {Outcome(s, <<>>, "", f)}
  ELSE IF Fails(f) THEN {Outcome(s, <<>>, "CountFail", f)}
  ELSE LET totalAlerts == Cardinality(s.alerts)
           nbToDelete == totalAlerts - MaxItems
       IN IF totalAlerts <= MaxItems THEN {Outcome(s, <<>>, "", After(f))}
          ELSE IF Fails(After(f)) THEN {Outcome(s, <<>>, "QueryFail", After(f))}
          ELSE {DeleteEach(s, alerts, 1, nbToDelete + 1, After(After(f))) :
                  alerts \in AscCreatedAt(s.alerts)}

\* lines 333-360
FlushMaxItems(s, MaxItems, f) ==
  IF MaxItems <= 0 THEN {Outcome(s, <<>>, "", f)}
  ELSE IF Fails(f) THEN {Outcome(s, <<>>, "CountFail", f)}
  ELSE LET totalAlerts == Cardinality(s.alerts)
           nbToDelete == totalAlerts - MaxItems
       IN IF totalAlerts <= MaxItems THEN {Outcome(s, <<>>, "", After(f))}
          ELSE IF Fails(After(f)) THEN {Outcome(s, <<>>, "QueryFail", After(f))}
          ELSE {DeleteEach(s, alerts, 1, nbToDelete, After(After(f))) :
                  alerts \in AscCreatedAt(s.alerts)}

\* lines 319-364
FlushAlerts(s, MaxAge, MaxItems, t, f) ==
  LET until == t - MaxAge
      byAge == IF MaxAge > 0
               THEN DeleteAlertWithFilter(s, [k \in {"until"} |-> FormatRFC3339(until)],
                                          <<"until">>, t, f)
               ELSE {Outcome(s, <<>>, "", f)}
  IN UNION {IF d.err # "" THEN {d} ELSE FlushMaxItems(d.s, MaxItems, d.f) : d \in byAge}

(***************************************************************************)
(* Alert submissions (models.Alert) the specifications ingest.             *)
(***************************************************************************)
DecisionItem(dur, type, startIP, endIP, origin) ==
  [duration |-> dur, type |-> type, startIP |-> startIP, endIP |-> endIP,
   origin |-> origin]

AlertItem(scenario, simulated, events, metas, decisions) ==
  [startAt |-> Instant(0), stopAt |-> Instant(0), scenario |-> scenario,
   scope |-> Str("Ip"), value |-> Host(5), simulated |-> simulated,
   events |-> events, metas |-> metas, decisions |-> decisions]

Bare == AlertItem(Str("ssh-bf"), FALSE, <<>>, <<>>, <<>>)
OneEvent == AlertItem(Str("ssh-bf"), FALSE, <<Instant(0)>>, <<>>, <<>>)
Full == AlertItem(Str("http-scan"), FALSE, <<Instant(0), Instant(0)>>, <<"k">>,
                  <<DecisionItem(Dur(1), Str("ban"), 5, 5, "crowdsec")>>)
TwoDecisions == AlertItem(Str("ssh-bf"), TRUE, <<>>, <<"k">>,
                  <<DecisionItem(Dur(2), Str("ban"), 15, 30, "CAPI"),
                    DecisionItem(Dur(0), Str("captcha"), 5, 12, "crowdsec")>>)
CapiOnly == AlertItem(Str("ssh-bf"), FALSE, <<>>, <<>>,
                  <<DecisionItem(Dur(0), Str("ban"), 5, 5, "CAPI")>>)
BadStart == [Bare EXCEPT !.startAt = Str("yesterday")]
BadEventTime == [OneEvent EXCEPT !.events = <<Instant(0), Str("noon")>>]
BadDuration == [Full EXCEPT !.decisions =
                  <<DecisionItem(Str("soon"), Str("ban"), 5, 5, "crowdsec")>>]

\* a submission that fails to parse, of a kind that varies with its position
BadItemAt(n) ==
  CASE n % 3 = 0 -> BadStart
    [] n % 3 = 1 -> BadEventTime
    [] OTHER -> BadDuration

ValidItem(alertItem) ==
  /\ TimeParse(alertItem.startAt).ok
  /\ TimeParse(alertItem.stopAt).ok
  /\ \A k \in 1..Len(alertItem.events) : TimeParse(alertItem.events[k]).ok
  /\ \A k \in 1..Len(alertItem.decisions) :
       ParseDuration(alertItem.decisions[k].duration).ok

\* the lists of the batching specification repeat a short pattern of valid items
Patterns ==
  {<<Bare>>, <<OneEvent>>, <<Full>>, <<OneEvent, Bare>>, <<Full, TwoDecisions>>,
   <<TwoDecisions, Bare, Full>>}

Repeat(pat, n) == [k \in 1..n |-> pat[((k - 1) % Len(pat)) + 1]]

\* no delete or flush is in progress
NoRun == [op |-> "none"]

NoLast(pre) ==
  [op |-> "none", pre |-> pre, filter |-> <<>>, order |-> <<>>, maxAge |-> 0,
   maxItems |-> 0, ret |-> <<>>, err |-> "", list |-> <<>>, f |-> 0]

(***************************************************************************)
(* SpecIngest: one CreateAlertBulk call, one loop iteration per step, on a *)
(* store that is empty or already holds an alert.                          *)
(***************************************************************************)
Seeded(mode) == CreateAlertBulk(EmptyStore(mode), "m1", <<OneEvent>>, 0, 0).s

InitIngest ==
  /\ now = 1
  /\ \E mode \in AttachModes : store \in {EmptyStore(mode), Seeded(mode)}
  /\ last = NoLast(store)
  /\ run = NoRun
  /\ \E n \in 0..MaxList, pat \in Patterns, machineId \in {"m1", "ghost"} :
       \/ call = NewCall(machineId, Repeat(pat, n), 0)
       \/ /\ n > 0 /\ machineId = "m1"
          /\ call = NewCall(machineId, [Repeat(pat, n) EXCEPT ![n] = BadItemAt(n)], 0)

\* one iteration of the loop; k > 0 makes its k-th storage statement fail
IngestIterate ==
  /\ call.pc = "loop"
  /\ \E k \in 0..5 :
       LET x == CreateAlertBulkIter([s |-> store, c |-> [call EXCEPT !.f = k]],
                                    now, bulkSize)
       IN store' = x.s /\ call' = x.c
  /\ UNCHANGED <<now, last, run>>

\* the persist of the last, partial batch
IngestFinal ==
  /\ call.pc = "final"
  /\ \E k \in 0..1 :
       LET x == CreateAlertBulkFinal([s |-> store, c |-> [call EXCEPT !.f = k]], now)
       IN store' = x.s /\ call' = x.c
  /\ UNCHANGED <<now, last, run>>

NextIngest == IngestIterate \/ IngestFinal

SpecIngest == InitIngest /\ [][NextIngest]_vars

(***************************************************************************)
(* Spec: the store under any sequence of whole calls of CreateAlertBulk,   *)
(* QueryAlertWithFilter, DeleteAlertWithFilter and FlushAlerts, with the   *)
(* clock advancing between calls.  last records the call just made.        *)
(***************************************************************************)
CallItems == {OneEvent, Full, BadDuration}

CallLists == UNION {[1..n -> CallItems] : n \in 0..MaxCallList}

Map1(k, v) == [x \in {k} |-> v]
Map2(k1, v1, k2, v2) == [x \in {k1, k2} |-> IF x = k1 THEN v1 ELSE v2]

\* the filters of the store specification
Filters ==
  {<<>>,
   Map1("scenario", Str("ssh-bf")),
   Map1("until", Dur(1)),
   Map1("flavour", Str("x"))}

Init ==
  /\ now = 0
  /\ store \in {EmptyStore(mode) : mode \in AttachModes}
  /\ call = IdleCall
  /\ last = NoLast(store)
  /\ run = NoRun

Tick ==
  /\ now < MaxTime
  /\ now' = now + 1
  /\ UNCHANGED <<store, call, last, run>>

Ingest ==
  /\ store.nextAlert <= MaxAlertId
  /\ store.nextEvent <= MaxChildId
  /\ store.nextMeta <= MaxChildId
  /\ store.nextDecision <= MaxChildId
  /\ \E alertList \in CallLists, f \in 0..MaxFail :
       LET x == CreateAlertBulk(store, "m1", alertList, f, now)
       IN /\ store' = x.s
          /\ last' = [NoLast(store) EXCEPT !.op = "ingest", !.list = alertList,
                        !.ret = x.c.ret, !.err = x.c.err, !.f = f]
  /\ UNCHANGED <<now, call, run>>

\* one QueryAlertWithFilter call with a filter of fs
QueryCall(fs) ==
  /\ \E filter \in fs, f \in 0..1 :
       \E order \in Orders(LoopKeys(filter)) :
          \E r \in QueryAlertWithFilter(store, filter, order, now, f) :
             last' = [NoLast(store) EXCEPT !.op = "query", !.filter = filter,
                        !.order = order, !.ret = r.ret, !.err = r.err, !.f = f]
  /\ UNCHANGED <<store, now, call, run>>

\* one DeleteAlertWithFilter call with a filter of fs
DeleteCall(fs, maxFail) ==
  /\ \E filter \in fs, f \in 0..maxFail :
       \E order \in Orders(LoopKeys(filter)) :
          \E r \in DeleteAlertWithFilter(store, filter, order, now, f) :
             /\ store' = r.s
             /\ last' = [NoLast(store) EXCEPT !.op = "delete", !.filter = filter,
                           !.order = order, !.ret = r.ret, !.err = r.err, !.f = f]
  /\ UNCHANGED <<now, call, run>>

\* one FlushAlerts call
FlushCall(maxFail) ==
  /\ \E MaxAge \in 0..MaxTime, MaxItems \in 0..MaxAlertId, f \in 0..maxFail :
       \E r \in FlushAlerts(store, MaxAge, MaxItems, now, f) :
          /\ store' = r.s
          /\ last' = [NoLast(store) EXCEPT !.op = "flush", !.maxAge = MaxAge,
                        !.maxItems = MaxItems, !.err = r.err, !.f = f]
  /\ UNCHANGED <<now, call, run>>

Query == QueryCall(Filters)

Delete == DeleteCall(Filters, MaxFail)

Flush == FlushCall(MaxFail)

Next == Tick \/ Ingest \/ Query \/ Delete \/ Flush

Spec == Init /\ [][Next]_vars

(***************************************************************************)
(* SpecApply: one query, delete or flush applied to a store that two       *)
(* ingestions, at instants 0 and 1, have filled.                           *)
(***************************************************************************)
FixtureItems == {Bare, Full, TwoDecisions, CapiOnly, BadDuration}

FixtureLists(n) == UNION {[1..k -> FixtureItems] : k \in 0..n}

Fixture(mode, first, second) ==
  CreateAlertBulk(CreateAlertBulk(EmptyStore(mode), "m1", first, 0, 0).s,
                  "ghost", second, 0, 1).s

SinceFilters ==
  {Map1("since", Dur(d)) : d \in 0..MaxDuration} \cup
  {Map2("since", Dur(d), "until", Dur(d)) : d \in 0..MaxDuration}

ApplyFilters ==
  SinceFilters \cup
  {<<>>,
   Map1("simulated", Str("false")),
   Map1("simulated", Str("true")),
   Map1("scope", Str("Ip")),
   Map1("value", Host(5)),
   Map1("scenario", Str("ssh-bf")),
   Map1("until", Dur(1)),
   Map1("since", Str("lately")),
   Map1("until", Instant(1)),
   Map1("range", Cidr(10, 20)),
   Map1("ip", Host(5)),
   Map1("ip", Str("localhost")),
   Map1("decision_type", Str("ban")),
   Map1("has_active_decision", Str("maybe")),
   Map1("has_active_decision", Str("true")),
   Map1("has_active_decision", Str("false")),
   Map1("has_active_decision", Str("1")),
   Map1("include_capi", Str("false")),
   Map1("include_capi", Str("yes")),
   Map1("include_capi", Str("true")),
   Map2("include_capi", Str("false"), "scenario", Str("ssh-bf")),
   Map1("flavour", Str("x")),
   Map2("ip", Host(5), "range", Cidr(10, 20)),
   Map2("flavour", Str("x"), "colour", Str("y")),
   Map2("range", Str("10.0.0.0"), "flavour", Str("x")),
   Map2("scenario", Str("ssh-bf"), "simulated", Str("false"))}

InitApply ==
  /\ now \in 1..MaxTime
  /\ \E mode \in AttachModes, first \in FixtureLists(MaxCallList),
        second \in FixtureLists(1) :
       store = Fixture(mode, first, second)
  /\ call = IdleCall
  /\ last = NoLast(store)
  /\ run = NoRun

ApplyQuery == last.op = "none" /\ QueryCall(ApplyFilters)

ApplyDelete == last.op = "none" /\ DeleteCall(ApplyFilters, MaxApplyFail)

ApplyFlush == last.op = "none" /\ FlushCall(MaxApplyFail)

NextApply == ApplyQuery \/ ApplyDelete \/ ApplyFlush

SpecApply == InitApply /\ [][NextApply]_vars

(***************************************************************************)
(* SpecCascade: DeleteAlertGraph on one alert of a filled store, one       *)
(* statement per step; a statement may fail, which aborts the cascade, and *)
(* an aborted cascade may be run again on the same alert.                  *)
(***************************************************************************)
NewCascade(id, tries) ==
  [op |-> "cascade", id |-> id, k |-> 1, err |-> "", tries |-> tries,
   storageFailed |-> FALSE]

InitCascade ==
  /\ now = 1
  /\ \E mode \in AttachModes, first \in FixtureLists(MaxCallList),
        second \in FixtureLists(1) :
       store = Fixture(mode, first, second)
  /\ call = IdleCall
  /\ last = NoLast(store)
  /\ \E alertItem \in store.alerts : run = NewCascade(alertItem.id, 1)

\* the next statement of the cascade; f = 1 makes the storage fail it
CascadeStatement ==
  /\ run.op = "cascade" /\ run.err = "" /\ run.k <= 4
  /\ \E f \in 0..1 :
       LET r == DeleteAlertGraphStatement(store, run.id, run.k, f)
       IN /\ store' = r.s
          /\ run' = IF r.err # ""
                    THEN [run EXCEPT !.err = r.err, !.storageFailed = Fails(f)]
                    ELSE [run EXCEPT !.k = @ + 1]
  /\ UNCHANGED <<now, call, last>>

\* DeleteAlertGraph called again on the alert of an aborted cascade
CascadeRetry ==
  /\ run.op = "cascade" /\ run.err # "" /\ run.tries < MaxTries
  /\ run' = NewCascade(run.id, run.tries + 1)
  /\ UNCHANGED <<store, now, call, last>>

NextCascade == CascadeStatement \/ CascadeRetry

SpecCascade == InitCascade /\ [][NextCascade]_vars

(***************************************************************************)
(* SpecFlush: two FlushAlerts(0, MaxItems) calls and ingestions of one     *)
(* alert running concurrently on a filled store.  Each storage statement   *)
(* (the count, the ordered scan, each delete of a cascade, the persist of  *)
(* an alert) is one step; nothing holds between the statements of a call.  *)
(***************************************************************************)
Flushers == {1, 2}

NewFlush ==
  [pc |-> "count", totalAlerts |-> 0, nbToDelete |-> 0, alerts |-> <<>>,
   itemNb |-> 0, k |-> 1, err |-> ""]

InitFlush ==
  /\ now = 1
  /\ \E mode \in AttachModes, n \in 0..MaxCallList, m \in 0..1 :
       store = Fixture(mode, [k \in 1..n |-> OneEvent], [k \in 1..m |-> OneEvent])
  /\ call = IdleCall
  /\ last = NoLast(store)
  /\ \E MaxItems \in 1..MaxAlertId :
       run = [op |-> "flush", MaxItems |-> MaxItems, p |-> [i \in Flushers |-> NewFlush]]

\* lines 334-339: the count, and the number of alerts to delete
FlushCount(i) ==
  /\ run.p[i].pc = "count"
  /\ LET totalAlerts == Cardinality(store.alerts)
     IN run' = [run EXCEPT !.p[i].totalAlerts = totalAlerts,
                           !.p[i].nbToDelete = totalAlerts - run.MaxItems,
                           !.p[i].pc = IF totalAlerts > run.MaxItems THEN "scan" ELSE "done"]
  /\ UNCHANGED <<store, now, call, last>>

\* lines 340-349: the scan of all the alerts by ascending createdAt
FlushScan(i) ==
  /\ run.p[i].pc = "scan"
  /\ \E alerts \in AscCreatedAt(store.alerts) :
       run' = [run EXCEPT !.p[i].alerts = alerts, !.p[i].pc = "delete"]
  /\ UNCHANGED <<store, now, call, last>>

\* lines 350-357: the next statement of the cascade of alerts[itemNb], for
\* itemNb < nbToDelete
FlushDelete(i) ==
  /\ run.p[i].pc = "delete"
  /\ LET me == run.p[i]
     IN IF me.itemNb >= me.nbToDelete \/ me.itemNb >= Len(me.alerts)
        THEN /\ run' = [run EXCEPT !.p[i].pc = "done"]
             /\ UNCHANGED store
        ELSE LET r == DeleteAlertGraphStatement(store, me.alerts[me.itemNb + 1].id, me.k, 0)
             IN /\ store' = r.s
                /\ run' = IF r.err # ""
                          THEN [run EXCEPT !.p[i].err = r.err, !.p[i].pc = "done"]
                          ELSE IF me.k = 4
                          THEN [run EXCEPT !.p[i].itemNb = @ + 1, !.p[i].k = 1]
                          ELSE [run EXCEPT !.p[i].k = @ + 1]
  /\ UNCHANGED <<now, call, last>>

\* a concurrent ingestAlerts of one alert
FlushIngest ==
  /\ store.nextAlert < last.pre.nextAlert + MaxFlushIngest
  /\ store' = CreateAlertBulk(store, "m1", <<Bare>>, 0, now).s
  /\ UNCHANGED <<now, call, last, run>>

NextFlush ==
  \/ \E i \in Flushers : FlushCount(i)
  \/ \E i \in Flushers : FlushScan(i)
  \/ \E i \in Flushers : FlushDelete(i)
  \/ FlushIngest

SpecFlush == InitFlush /\ [][NextFlush]_vars

(***************************************************************************)
(* Claims on the ingestion, checked under SpecIngest.                      *)
(***************************************************************************)
\* the rows of a table created by the call in progress
Created(rows, before) == {r \in rows : r.id \notin Ids(before)}
OwnedBy(rows, a) == {r \in rows : r.owner = a.id}
BuiltFrom(rows, before, a) == {r \in Created(rows, before) : r.src = a.src}

OwnsItsChildren(a) ==
  LET alertItem == call.list[a.src]
  IN /\ OwnedBy(store.events, a) = BuiltFrom(store.events, last.pre.events, a)
     /\ OwnedBy(store.metas, a) = BuiltFrom(store.metas, last.pre.metas, a)
     /\ OwnedBy(store.decisions, a) = BuiltFrom(store.decisions, last.pre.decisions, a)
     /\ Cardinality(OwnedBy(store.events, a)) = Len(alertItem.events)
     /\ Cardinality(OwnedBy(store.metas, a)) = Len(alertItem.metas)
     /\ Cardinality(OwnedBy(store.decisions, a)) = Len(alertItem.decisions)

\* C2: every alert stored by one ingestAlerts call owns exactly the events,
\* metas and decisions of its own submission (K, M, D of them, 0 included) and
\* no child built from another submission of the call.
C2_OwnChildren ==
  \A a \in Created(store.alerts, last.pre.alerts) : OwnsItsChildren(a)

StorageFailed == call.err \in {"QueryFail", "BulkError"}
AllValid == \A k \in 1..Len(call.list) : ValidItem(call.list[k])

RunWithBatch(b) ==
  CreateAlertBulkRun([s |-> last.pre,
                      c |-> NewCall(call.machineId, call.list, 0)], now, b)

\* C4: absent failure, the store after ingesting a list is the one an
\* unbatched run (every alert persisted on its own, batch size 1) produces, for
\* every batch size and every list length.
C4_BatchingNotObservable ==
  (call.pc = "done" /\ call.err = "") =>
     \A b \in 1..MaxBatch :
        /\ RunWithBatch(b).c.err = ""
        /\ RunWithBatch(b).s = store
        /\ RunWithBatch(b).c.ret = call.ret

C4_Witness ==
  /\ call.pc = "done" /\ call.err = ""
  /\ Len(call.list) = 2 * bulkSize + 1
  /\ Cardinality(Created(store.alerts, last.pre.alerts)) = 2 * bulkSize + 1
  /\ store.events # last.pre.events

(***************************************************************************)
(* Claims on the store, checked under Spec.                                *)
(***************************************************************************)
Owned(s, rows) == \A r \in rows : \E a \in s.alerts : r.owner = a.id

\* C1: after any sequence of ingestAlerts, deleteAlerts and flush calls, failed
\* ones included, every stored decision, event and meta is owned by a stored
\* alert.
C1_NoOrphan ==
  /\ Owned(store, store.decisions)
  /\ Owned(store, store.events)
  /\ Owned(store, store.metas)

(***************************************************************************)
(* Claims on one query, delete or flush, checked under SpecApply.          *)
(***************************************************************************)
GraphOf(rows, id) == {r \in rows : r.owner = id}

\* the rows of a table of the store before the call that no alert of S owned
NotOf(rows, S) == {r \in rows : r.owner \notin Ids(S)}

ChildrenKept(S) ==
  /\ store.events = NotOf(last.pre.events, S)
  /\ store.metas = NotOf(last.pre.metas, S)
  /\ store.decisions = NotOf(last.pre.decisions, S)

\* C5: after a flush with maxAge > 0 and no storage failure no stored alert has
\* createdAt at or before now - maxAge.
C5_AgeFlush ==
  (last.op = "flush" /\ last.maxAge > 0 /\ last.f = 0) =>
     \A a \in store.alerts : ~(a.createdAt <= now - last.maxAge)

\* C6: a flush with maxAge = 0 and maxItems = M over C stored alerts deletes,
\* when M > 0 and C > M, exactly C - M alerts, none of them newer than an alert
\* it keeps, together with their children, and leaves the rest as it was; when
\* C <= M or M = 0 it deletes nothing.
C6_CountCap ==
  (last.op = "flush" /\ last.maxAge = 0 /\ last.f = 0) =>
     LET C == Cardinality(last.pre.alerts)
         M == last.maxItems
         deleted == last.pre.alerts \ store.alerts
     IN /\ last.err = ""
        /\ store.alerts \subseteq last.pre.alerts
        /\ ChildrenKept(deleted)
        /\ IF M > 0 /\ C > M
           THEN /\ Cardinality(deleted) = C - M
                /\ \A d \in deleted, r \in store.alerts : d.createdAt <= r.createdAt
           ELSE deleted = {}

C6_Witness ==
  /\ last.op = "flush" /\ last.maxAge = 0 /\ last.f = 0 /\ last.maxItems = 1
  /\ Cardinality(last.pre.alerts) = 3
  /\ Cardinality(store.alerts) = 1
  /\ \E a \in last.pre.alerts, b \in store.alerts : a.createdAt < b.createdAt
  /\ store.events # last.pre.events

\* the query a call compiled from its filter
Compiled == BuildAlertRequestFromFilter(last.filter, last.order, now)
FlushCompiled ==
  BuildAlertRequestFromFilter(Map1("until", FormatRFC3339(now - last.maxAge)),
                              <<"until">>, now)

\* C7: when the compilation of the filter fails, queryAlerts, deleteAlerts and
\* flush return an error and delete nothing.
C7_CompileErrorReported ==
  /\ (last.op \in {"query", "delete"} /\ Compiled.err # "") =>
        (last.err # "" /\ store = last.pre)
  /\ (last.op = "flush" /\ last.maxAge > 0 /\ FlushCompiled.err # "") =>
        (last.err # "" /\ store = last.pre)

\* C8: deleteAlerts with a valid filter matching the set S and no storage
\* failure removes exactly the alerts of S and the events, metas and decisions
\* they own, leaves every other row as it was, and returns S.
C8_DeleteExactlyMatched ==
  (last.op = "delete" /\ last.f = 0 /\ Compiled.err = "") =>
     LET S == Matched(last.pre, Compiled)
     IN /\ last.err = ""
        /\ store.alerts = last.pre.alerts \ S
        /\ ChildrenKept(S)
        /\ Range(last.ret) = S
        /\ Len(last.ret) = Cardinality(S)

C8_Witness ==
  /\ last.op = "delete" /\ last.f = 0 /\ Compiled.err = ""
  /\ Matched(last.pre, Compiled) # {}
  /\ store.alerts # {}
  /\ store.alerts # last.pre.alerts
  /\ store.decisions # {}
  /\ store.decisions # last.pre.decisions

\* C9: when the ip or range filter yields a non-zero range [s, e], every alert
\* matched has one decision d with d.startIP >= s and d.endIP <= e.
C9_SingleDecisionInRange ==
  (last.op = "query" /\ last.err = "" /\ Compiled.startIP # 0 /\ Compiled.endIP # 0) =>
     \A a \in Range(last.ret) :
        \E d \in DecisionsOf(last.pre, a) :
           d.startIP >= Compiled.startIP /\ d.endIP <= Compiled.endIP

\* C10: the outcome of BuildAlertRequestFromFilter, the alerts matched or the
\* error returned, is the same for every order in which the keys are visited.
C10_OrderImmaterial ==
  (last.op = "query" /\ last.f = 0) =>
     \A order \in Orders(LoopKeys(last.filter)) :
        LET q == BuildAlertRequestFromFilter(last.filter, order, now)
        IN /\ q.err = last.err
           /\ q.err = "" => Matched(last.pre, q) = Range(last.ret)

\* the filter of the call without one of its keys, and what it matches
Without(filter, key) == [x \in DOMAIN filter \ {key} |-> filter[x]]
MatchedWithout(key) ==
  LET rest == Without(last.filter, key)
      order == CHOOSE o \in Orders(LoopKeys(rest)) : TRUE
  IN Matched(last.pre, BuildAlertRequestFromFilter(rest, order, now))

FromCapi(s, a) == {d \in DecisionsOf(s, a) : d.origin = "CAPI"}

\* C11: include_capi=false removes from the set matched without the key the
\* alerts whose decisions all originate from CAPI, and keeps every alert that
\* has no CAPI decision, the alerts with zero decisions included; any other
\* value of the key matches the same set as the filter without the key.
C11_IncludeCapi ==
  (last.op = "query" /\ last.err = "" /\ "include_capi" \in DOMAIN last.filter) =>
     LET base == MatchedWithout("include_capi")
         res == Range(last.ret)
     IN IF last.filter["include_capi"] = Str("false")
        THEN /\ res \subseteq base
             /\ \A a \in base :
                  /\ FromCapi(last.pre, a) = {} => a \in res
                  /\ (DecisionsOf(last.pre, a) # {} /\
                      FromCapi(last.pre, a) = DecisionsOf(last.pre, a)) => a \notin res
        ELSE res = base

Active(s, a, t) == {d \in DecisionsOf(s, a) : d.until >= t}

MatchedSince(d) ==
  Matched(last.pre, BuildAlertRequestFromFilter(Map1("since", Dur(d)), <<"since">>, now))

\* C13: over one store and one instant, the alerts matched by since=d1 are
\* matched by since=d2 for every d2 >= d1, and since=d with until=d matches
\* exactly the alerts created at now - d.
C13_SinceMonotonic ==
  (last.op = "query" /\ last.f = 0 /\ last.filter \in SinceFilters) =>
     LET d1 == ParseDuration(last.filter["since"]).d
         res == Range(last.ret)
     IN /\ last.err = ""
        /\ \A d2 \in d1..(MaxDuration + 1) : res \subseteq MatchedSince(d2)
        /\ DOMAIN last.filter = {"since"} =>
              res = {a \in last.pre.alerts : a.createdAt >= now - d1}
        /\ "until" \in DOMAIN last.filter =>
              res = {a \in last.pre.alerts : a.createdAt = now - d1}

C13_Witness ==
  /\ last.op = "query" /\ last.f = 0 /\ last.err = ""
  /\ last.filter = Map1("since", Dur(0))
  /\ last.ret # <<>>
  /\ MatchedSince(1) \ Range(last.ret) # {}

\* the store after the cascade of rows[k] failed at its statement step, those
\* of rows[1..k-1] having completed and none having started after it
CascadeFailedAt(rows, k, step) ==
  LET gone == {rows[j] : j \in 1..(k - 1)}
      upTo(n) == IF step > n THEN gone \cup {rows[k]} ELSE gone
  IN /\ last.err # ""
     /\ store.alerts = last.pre.alerts \ gone
     /\ store.events = NotOf(last.pre.events, upTo(1))
     /\ store.metas = NotOf(last.pre.metas, upTo(2))
     /\ store.decisions = NotOf(last.pre.decisions, upTo(3))

\* the statement the call was made to fail, counted from the first statement
\* of the first cascade: the cascade it belongs to and its place in it
FailedCascade(first) == ((last.f - first) \div 4) + 1
FailedStep(first) == ((last.f - first) % 4) + 1

\* C16: when the cascading delete of the k-th alert of a deleteAlerts or of a
\* flush fails, the call returns an error, the alerts 1..k-1 and their children
\* are deleted, the k-th is left partially deleted, and the alerts after the
\* k-th keep all of their rows.
C16_StopAtFirstFailure ==
  /\ (last.op = "delete" /\ Compiled.err = "" /\ last.f >= 2 /\
      FailedCascade(2) <= Cardinality(Matched(last.pre, Compiled))) =>
        \E rows \in AscCreatedAt(Matched(last.pre, Compiled)) :
           CascadeFailedAt(rows, FailedCascade(2), FailedStep(2))
  /\ (last.op = "flush" /\ last.maxAge = 0 /\ last.maxItems > 0 /\ last.f >= 3 /\
      FailedCascade(3) <= Cardinality(last.pre.alerts) - last.maxItems) =>
        \E rows \in AscCreatedAt(last.pre.alerts) :
           CascadeFailedAt(rows, FailedCascade(3), FailedStep(3))

C16_Witness ==
  /\ last.op = "delete" /\ last.filter = <<>> /\ last.err = "DeleteFail"
  /\ FailedCascade(2) = 2
  /\ Cardinality(last.pre.alerts) = 3 /\ Cardinality(store.alerts) = 2
  /\ store.events # last.pre.events
  /\ \E a \in store.alerts :
        /\ GraphOf(store.events, a.id) # {}
        /\ \E b \in store.alerts : b.createdAt < a.createdAt

(***************************************************************************)
(* Claims on the cascading delete of one alert, checked under SpecCascade. *)
(***************************************************************************)
\* C14: in every state of a cascading delete, aborted ones included, the
\* metas of the alert are touched only once its events are gone, its decisions
\* only once its metas are gone, and the alert row is gone only once no event,
\* meta or decision of it is left.
C14_ChildrenFirst ==
  run.op = "cascade" =>
     LET id == run.id
         events == GraphOf(store.events, id)
         metas == GraphOf(store.metas, id)
         decisions == GraphOf(store.decisions, id)
     IN /\ metas # GraphOf(last.pre.metas, id) => events = {}
        /\ decisions # GraphOf(last.pre.decisions, id) => events = {} /\ metas = {}
        /\ id \notin Ids(store.alerts) => events = {} /\ metas = {} /\ decisions = {}

C14_Witness ==
  /\ run.op = "cascade" /\ run.err = "DeleteFail" /\ run.k = 3
  /\ GraphOf(last.pre.events, run.id) # {}
  /\ GraphOf(last.pre.metas, run.id) # {}
  /\ GraphOf(store.events, run.id) = {}
  /\ GraphOf(store.decisions, run.id) # {}
  /\ run.id \in Ids(store.alerts)

\* C19: a cascading delete run again on an alert whose earlier cascade aborted
\* fails only when the storage fails a statement, never because rows are
\* already gone, and when it succeeds no row of the alert's graph is left.
C19_RetryConverges ==
  (run.op = "cascade" /\ run.tries > 1) =>
     /\ run.err # "" => run.storageFailed
     /\ run.k = 5 =>
           /\ run.id \notin Ids(store.alerts)
           /\ GraphOf(store.events, run.id) = {}
           /\ GraphOf(store.metas, run.id) = {}
           /\ GraphOf(store.decisions, run.id) = {}
           /\ store.alerts = {r \in last.pre.alerts : r.id # run.id}
           /\ store.events = last.pre.events \ GraphOf(last.pre.events, run.id)
           /\ store.metas = last.pre.metas \ GraphOf(last.pre.metas, run.id)
           /\ store.decisions = last.pre.decisions \ GraphOf(last.pre.decisions, run.id)

C19_Witness ==
  /\ run.op = "cascade" /\ run.tries = 2 /\ run.k = 5 /\ run.err = ""
  /\ GraphOf(last.pre.events, run.id) # {}
  /\ GraphOf(last.pre.metas, run.id) # {}
  /\ GraphOf(last.pre.decisions, run.id) # {}
  /\ store.alerts # {}

\* positions, in the list, of the alerts the call in progress has stored
StoredPositions == {a.src : a \in Created(store.alerts, last.pre.alerts)}

\* C15: a call that fails while at the alert of index i (from 0; i = the
\* length of the list for the last persist) returns an error with an empty
\* identifier list and has stored exactly the alerts of indices below
\* 20 * floor(i / 20): the batches persisted before, none of the batch in
\* progress.
C15_FailedCallKeepsWholeBatches ==
  (call.pc = "done" /\ call.err # "") =>
     LET kept == bulkSize * (call.i \div bulkSize)
     IN /\ call.ret = <<>>
        /\ StoredPositions = 1..kept
        /\ Cardinality(Created(store.alerts, last.pre.alerts)) = kept

C15_Witness ==
  /\ call.pc = "done" /\ call.err = "ParseDurationFail"
  /\ call.i > bulkSize /\ call.i < 2 * bulkSize
  /\ Cardinality(Created(store.alerts, last.pre.alerts)) = bulkSize
  /\ last.pre.alerts # {}

(***************************************************************************)
(* Claims on the machine lookup and on what a reader sees of an ingestion  *)
(* in progress, checked under SpecIngest.                                  *)
(***************************************************************************)
\* C17: a lookup that reports "not found" does not fail the call and the
\* alerts are stored with no owner; any other lookup error ends the call with
\* QueryFail and an empty identifier list; after a successful lookup the
\* alerts are stored with the machine as owner.
C17_MachineLookup ==
  /\ call.lookup = "UserNotExists" => call.err # "QueryFail" /\ call.owner = ""
  /\ call.lookup = "QueryFail" =>
        call.err = "QueryFail" /\ call.pc = "done" /\ call.ret = <<>>
  /\ call.err = "QueryFail" => call.lookup = "QueryFail"
  /\ call.lookup = "" /\ call.i > 0 => call.owner = call.machineId
  /\ \A a \in Created(store.alerts, last.pre.alerts) :
        a.owner = IF call.machineId \in Machines THEN call.machineId ELSE ""
  /\ (call.pc = "done" /\ call.machineId \notin Machines /\
      call.lookup = "UserNotExists" /\ AllValid /\ ~StorageFailed) =>
        /\ call.err = ""
        /\ Cardinality(Created(store.alerts, last.pre.alerts)) = Len(call.list)

C17_Witness ==
  /\ call.pc = "done" /\ call.err = "" /\ call.lookup = "UserNotExists"
  /\ Len(call.list) > bulkSize
  /\ Cardinality(Created(store.alerts, last.pre.alerts)) = Len(call.list)
  /\ \A a \in Created(store.alerts, last.pre.alerts) : a.owner = ""
  /\ \E a \in last.pre.alerts : a.owner = "m1"

\* C18: in every state of one ingestAlerts call, the alerts of the submission
\* that are stored are its first m alerts, m being a multiple of 20 or the
\* length of the list.
C18_ReaderSeesWholeBatches ==
  LET m == Cardinality(Created(store.alerts, last.pre.alerts))
  IN /\ StoredPositions = 1..m
     /\ m % bulkSize = 0 \/ m = Len(call.list)

\* a reader sees a part of the submission only
C18_Witness ==
  /\ call.pc = "loop" /\ call.err = ""
  /\ Cardinality(Created(store.alerts, last.pre.alerts)) = bulkSize
  /\ Len(call.list) > bulkSize
  /\ call.i > bulkSize

(***************************************************************************)
(* Claim on concurrent flushes, checked under SpecFlush.                   *)
(***************************************************************************)
Least(a, b) == IF a <= b THEN a ELSE b

\* C20: while flush(0, M) calls run concurrently with one another and with
\* ingestions, the number of stored alerts never falls below M (below the
\* initial number when that is less than M): no flush deletes an alert while M
\* or fewer are stored.
C20_NeverBelowCap ==
  run.op = "flush" =>
     Cardinality(store.alerts) >= Least(run.MaxItems, Cardinality(last.pre.alerts))

====
